---- MODULE Spec2Model ----
(***************************************************************************)
(* Model of the news aggregation endpoint of src/main.py:                  *)
(*   fetch_rss_feed (lines 28-77)  fetch one feed, parse RSS 2.0 or Atom   *)
(*   get_live_news  (lines 79-112) merge, deduplicate, sort, truncate      *)
(*                                                                         *)
(* Text is a sequence of one-character strings, so that strip() and the    *)
(* lexicographic comparison of the sort are computed and not assumed.      *)
(* A date text is the sequence of its whitespace-separated tokens, a       *)
(* blank token " " standing for surrounding whitespace.                    *)
(***************************************************************************)
EXTENDS Integers, Sequences, FiniteSets, TLC

VARIABLES pc, limit, net, collected, unique, response, feedResp, feedItems

vars == <<pc, limit, net, collected, unique, response, feedResp, feedItems>>

(***************************************************************************)
(* Bounds of the model and constants of the program.                       *)
(***************************************************************************)
MaxLimit == 3
MaxNeg == 1
MaxEntries == 2
DefaultLimit == 9

\* The limits of a request: the default, the other limits that truncate, and
\* the negative ones, which the handler accepts as well.
IsLimit(n) ==
  \/ n = DefaultLimit
  \/ n \in 0 .. MaxLimit
  \/ n \in (0 - MaxNeg) .. (0 - 1)

feeds ==
  << "https://www.nasdaq.com/feed/rssoutbound?category=Investing",
     "https://www.marketwatch.com/feeds/topstories",
     "https://www.edweek.org/feeds/index.rss" >>

(***************************************************************************)
(* Python values.  None is Python's None; Absent marks an XML element that *)
(* the document does not contain (find() returns None for it).             *)
(***************************************************************************)
None == <<"None">>
Absent == <<"Absent">>

Min(a, b) == IF a <= b THEN a ELSE b
Max(a, b) == IF a >= b THEN a ELSE b

\* Slice with the bound one too far: one element more than asked for.
Slice_OffByOne(s, n) ==
  IF n >= 0 THEN SubSeq(s, 1, Min(n + 1, Len(s)))
            ELSE SubSeq(s, 1, Max(Len(s) + n, 0))

\* seq[:n] of Python: a negative n counts from the end.
Slice(s, n) ==
  IF n >= 0 THEN SubSeq(s, 1, Min(n, Len(s)))
            ELSE SubSeq(s, 1, Max(Len(s) + n, 0))

\* bool(v) of a str-or-None value.
Truthy(v) == v # None /\ v # <<>>

\* (v or "")
OrEmpty(v) == IF Truthy(v) THEN v ELSE <<>>

RECURSIVE LStrip(_)
LStrip(s) == IF s # <<>> /\ Head(s) = " " THEN LStrip(Tail(s)) ELSE s

RECURSIVE RStrip(_)
RStrip(s) ==
  IF s # <<>> /\ s[Len(s)] = " " THEN RStrip(SubSeq(s, 1, Len(s) - 1)) ELSE s

\* str.strip()
Strip(s) == RStrip(LStrip(s))

\* Element.findtext(tag): None when the element is missing, "" when it has
\* no text.
findtext(el) == IF el = Absent THEN None ELSE IF el = None THEN <<>> ELSE el

(***************************************************************************)
(* email.utils.parsedate_to_datetime and datetime.isoformat.               *)
(***************************************************************************)
DayOf == ("01" :> 1) @@ ("02" :> 2) @@ ("03" :> 3)
HourOf == ("00:00:00" :> 0) @@ ("01:00:00" :> 1) @@ ("02:00:00" :> 2)
ZoneOf == ("GMT" :> 0) @@ ("+0000" :> 0) @@ ("+0200" :> 2) @@ ("-0100" :> (0 - 1))

NoDate == [ok |-> FALSE, day |-> 0, hour |-> 0, off |-> 0]

\* data.split()
Split(data) == SelectSeq(data, LAMBDA t : t # " ")

\* The RFC 2822 parser: a leading day name ending in a comma is skipped and
\* five tokens must remain (day, month, year, time, zone); any other text
\* raises ValueError, which is ok = FALSE here.
parsedate_to_datetime(pub) ==
  LET data == Split(pub)
      rest == IF data # <<>> /\ data[1] \in {"Mon,", "Tue,", "Wed,"}
              THEN Tail(data) ELSE data
  IN IF /\ Len(rest) = 5
        /\ rest[1] \in DOMAIN DayOf
        /\ rest[2] = "Jan"
        /\ rest[3] = "2024"
        /\ rest[4] \in DOMAIN HourOf
        /\ rest[5] \in DOMAIN ZoneOf
     THEN [ok |-> TRUE, day |-> DayOf[rest[1]], hour |-> HourOf[rest[4]],
           off |-> ZoneOf[rest[5]]]
     ELSE NoDate

Digit == <<"0", "1", "2", "3", "4", "5", "6", "7", "8", "9">>
TwoDigits(n) == <<Digit[(n \div 10) + 1], Digit[(n % 10) + 1]>>

\* dt.isoformat() of an aware datetime: YYYY-MM-DDTHH:MM:SS+HH:MM, the local
\* wall-clock fields followed by the UTC offset.
isoformat(dt) ==
  <<"2", "0", "2", "4", "-", "0", "1", "-">> \o TwoDigits(dt.day) \o <<"T">>
    \o TwoDigits(dt.hour) \o <<":", "0", "0", ":", "0", "0">>
    \o <<IF dt.off < 0 THEN "-" ELSE "+">>
    \o TwoDigits(IF dt.off < 0 THEN 0 - dt.off ELSE dt.off)
    \o <<":", "0", "0">>

\* try: dt = parsedate_to_datetime(pub) if pub else None / except: dt = None
\* then dt.isoformat() if dt else None
PublishedTs(pub) ==
  LET dt == IF Truthy(pub) THEN parsedate_to_datetime(pub) ELSE NoDate
  IN IF dt.ok THEN isoformat(dt) ELSE None

(***************************************************************************)
(* fetch_rss_feed                                                          *)
(***************************************************************************)
\* One <item> of an RSS channel.
RssItem(item, url) ==
  LET pub == Strip(OrEmpty(findtext(item.date)))
  IN [title |-> Strip(OrEmpty(findtext(item.title))),
      link |-> Strip(OrEmpty(findtext(item.link))),
      published |-> pub,
      published_ts |-> PublishedTs(pub),
      source |-> url]

\* title_el.text.strip() raises AttributeError when the title element is
\* there and has no text.
AtomRaises(entry) == entry.title = None

\* One <entry> of an Atom feed; entry.link is the href attribute of the link
\* element (None when the element has no such attribute).
AtomItem(entry, url) ==
  LET link == IF entry.link # Absent THEN entry.link ELSE <<>>
      pub == IF entry.date # Absent THEN entry.date ELSE <<>>
  IN [title |-> IF entry.title # Absent THEN Strip(entry.title) ELSE <<>>,
      link |-> link,
      published |-> pub,
      published_ts |-> PublishedTs(pub),
      source |-> url]

Raised == [raised |-> TRUE, items |-> <<>>]
Returned(items) == [raised |-> FALSE, items |-> items]

\* The body of the try block.
FetchBody(resp, url, lim) ==
  IF resp.exc THEN Raised                      \* requests.get raises
  ELSE IF resp.status >= 400 THEN Raised       \* raise_for_status
  ELSE IF ~resp.body.wellformed THEN Raised    \* ET.fromstring
  ELSE LET els == Slice(resp.body.entries, lim)
       IN IF resp.body.channel
          THEN Returned([i \in 1 .. Len(els) |-> RssItem(els[i], url)])
          ELSE IF \E i \in 1 .. Len(els) : AtomRaises(els[i])
               THEN Raised
               ELSE Returned([i \in 1 .. Len(els) |-> AtomItem(els[i], url)])

\* fetch_rss_feed without its except clause: the exception reaches the caller.
fetch_rss_feed_NoExcept(resp, url, lim) == FetchBody(resp, url, lim)

fetch_rss_feed(resp, url, lim) ==
  LET r == FetchBody(resp, url, lim)
  IN IF r.raised THEN Returned(<<>>) ELSE r

(***************************************************************************)
(* get_live_news                                                           *)
(***************************************************************************)
\* for u in feeds: collected.extend(fetch_rss_feed(u, limit=limit))
RECURSIVE Collect(_, _, _)
Collect(network, lim, u) ==
  IF u > Len(feeds) THEN Returned(<<>>)
  ELSE LET r == fetch_rss_feed(network[u], feeds[u], lim)
           rest == Collect(network, lim, u + 1)
       IN IF r.raised \/ rest.raised THEN Raised
          ELSE Returned(r.items \o rest.items)

\* The deduplication loop without the test of seen.
RECURSIVE DedupFrom_NoSeen(_, _, _, _)
DedupFrom_NoSeen(coll, i, seen, uniq) ==
  IF i > Len(coll) THEN uniq
  ELSE LET it == coll[i]
       IN IF ~Truthy(it.link) THEN DedupFrom_NoSeen(coll, i + 1, seen, uniq)
          ELSE DedupFrom_NoSeen(coll, i + 1, seen \cup {it.link}, Append(uniq, it))

\* The deduplication loop without the test of an empty link.
RECURSIVE DedupFrom_NoEmptyCheck(_, _, _, _)
DedupFrom_NoEmptyCheck(coll, i, seen, uniq) ==
  IF i > Len(coll) THEN uniq
  ELSE LET it == coll[i]
       IN IF it.link \in seen THEN DedupFrom_NoEmptyCheck(coll, i + 1, seen, uniq)
          ELSE DedupFrom_NoEmptyCheck(coll, i + 1, seen \cup {it.link},
                                      Append(uniq, it))

\* The deduplication loop, from position i on.
RECURSIVE DedupFrom(_, _, _, _)
DedupFrom(coll, i, seen, uniq) ==
  IF i > Len(coll) THEN uniq
  ELSE LET it == coll[i]
       IN IF ~Truthy(it.link) THEN DedupFrom(coll, i + 1, seen, uniq)
          ELSE IF it.link \in seen THEN DedupFrom(coll, i + 1, seen, uniq)
          ELSE DedupFrom(coll, i + 1, seen \cup {it.link}, Append(uniq, it))

Dedup(coll) == DedupFrom(coll, 1, {}, <<>>)

sort_key(x) == OrEmpty(x.published_ts)

\* ord() of the characters of an isoformat string.
Ord(c) ==
  CASE c = "+" -> 43
    [] c = "-" -> 45
    [] c = "0" -> 48
    [] c = "1" -> 49
    [] c = "2" -> 50
    [] c = "3" -> 51
    [] c = "4" -> 52
    [] c = "5" -> 53
    [] c = "6" -> 54
    [] c = "7" -> 55
    [] c = "8" -> 56
    [] c = "9" -> 57
    [] c = ":" -> 58
    [] c = "T" -> 84

\* a < b of two Python strings: the first differing character decides, a
\* proper prefix is smaller.
RECURSIVE StrLess(_, _)
StrLess(a, b) ==
  IF b = <<>> THEN FALSE
  ELSE IF a = <<>> THEN TRUE
  ELSE IF Head(a) = Head(b) THEN StrLess(Tail(a), Tail(b))
  ELSE Ord(Head(a)) < Ord(Head(b))

\* Insertion in front of the elements with an equal key: an unstable sort.
RECURSIVE InsertDesc_Unstable(_, _)
InsertDesc_Unstable(s, x) ==
  IF s = <<>> THEN <<x>>
  ELSE IF ~StrLess(sort_key(x), sort_key(Head(s))) THEN <<x>> \o s
  ELSE <<Head(s)>> \o InsertDesc_Unstable(Tail(s), x)

\* Insert x behind every element whose key is not smaller than the key of x.
RECURSIVE InsertDesc(_, _)
InsertDesc(s, x) ==
  IF s = <<>> THEN <<x>>
  ELSE IF StrLess(sort_key(Head(s)), sort_key(x)) THEN <<x>> \o s
  ELSE <<Head(s)>> \o InsertDesc(Tail(s), x)

RECURSIVE SortFrom(_, _, _)
SortFrom(s, i, acc) ==
  IF i > Len(s) THEN acc ELSE SortFrom(s, i + 1, InsertDesc(acc, s[i]))

\* list.sort(key=sort_key, reverse=True): descending and stable, elements
\* with equal keys keep their order.
SortDesc(s) == SortFrom(s, 1, <<>>)

NoResponse == [status |-> 0, items |-> <<>>, count |-> 0]
ServerError == [status |-> 500, items |-> <<>>, count |-> 0]

\* The JSON response of the handler for what the feeds returned.
Respond(coll, lim) ==
  LET trimmed == Slice(SortDesc(Dedup(coll)), lim)
  IN [status |-> 200, items |-> trimmed, count |-> Len(trimmed)]

(***************************************************************************)
(* Inputs: the documents the network serves.                               *)
(***************************************************************************)
Entry(t, l, d) == [title |-> t, link |-> l, date |-> d]
Doc(ch, es) == [wellformed |-> TRUE, channel |-> ch, entries |-> es]
NotXml == [wellformed |-> FALSE, channel |-> FALSE, entries |-> <<>>]
Ok(body) == [exc |-> FALSE, status |-> 200, body |-> body]
HttpError(body) == [exc |-> FALSE, status |-> 500, body |-> body]
TransportError == [exc |-> TRUE, status |-> 0, body |-> NotXml]

Jan1Gmt == <<"Mon,", "01", "Jan", "2024", "00:00:00", "GMT">>
Jan1Plus2 == <<"Mon,", "01", "Jan", "2024", "01:00:00", "+0200">>
Jan1Padded == <<" ", "Mon,", "01", "Jan", "2024", "02:00:00", "-0100">>
Iso2 == <<"2024-01-02T00:00:00Z">>
Iso3 == <<"2024-01-03T00:00:00Z">>

\* Entries of the feeds of an aggregation request.
rx == Entry(<<"a">>, <<"x">>, Jan1Gmt)
ry == Entry(<<"b">>, <<" ", "y">>, Jan1Plus2)
rz == Entry(<<"c">>, <<"z">>, Jan1Gmt)
rx2 == Entry(<<"d">>, <<"x">>, Jan1Plus2)
re == Entry(<<"e">>, Absent, Jan1Gmt)
ax == Entry(<<"f">>, <<"x">>, Iso2)
ay == Entry(<<"g">>, <<"y">>, Iso3)
an == Entry(<<"h">>, <<"w">>, None)
at == Entry(None, <<"v">>, Iso2)
al == Entry(<<"i">>, None, Iso3)

RssDocs ==
  { Doc(TRUE, es) : es \in { <<>>, <<rx>>, <<rx, ry>>, <<rz, rx>>, <<rx, rx2>>,
                             <<re, rz>>, <<ry, rz, rx>> } }

AtomDocs ==
  { Doc(FALSE, es) : es \in { <<ax, ay>>, <<an, ay>>, <<ay, at>>, <<al, ax>>,
                              <<ry, rx>> } }

\* What one feed can answer to an aggregation request.
AggResponses ==
  { Ok(d) : d \in RssDocs \cup AtomDocs }
    \cup { TransportError, HttpError(Doc(TRUE, <<rx>>)), Ok(NotXml) }

\* Documents of the parser: every sequence of at most MaxEntries entries.
Titles == { Absent, None, <<" ", "a", " ">> }
Links == { Absent, None, <<"x">> }
Dates == { Absent, None, Jan1Padded, Iso2 }
Entries == { Entry(t, l, d) : t \in Titles, l \in Links, d \in Dates }

SeqsUpTo(S, n) == UNION { [1 .. k -> S] : k \in 0 .. n }

ParserDocs == { Doc(ch, es) : ch \in BOOLEAN, es \in SeqsUpTo(Entries, MaxEntries) }

FetchResponses ==
  { Ok(d) : d \in ParserDocs }
    \cup { TransportError, HttpError(Doc(TRUE, <<rx>>)), Ok(NotXml) }

(***************************************************************************)
(* The aggregation request: GET /api/news?limit=<limit>.                   *)
(***************************************************************************)
Init ==
  /\ pc = "request"
  /\ IsLimit(limit)
  /\ net \in [1 .. Len(feeds) -> AggResponses]
  /\ collected = <<>>
  /\ unique = <<>>
  /\ response = NoResponse
  /\ feedResp = TransportError
  /\ feedItems = <<>>

GetLiveNews ==
  /\ pc = "request"
  /\ LET c == Collect(net, limit, 1)
     IN IF c.raised
        THEN /\ collected' = <<>>
             /\ unique' = <<>>
             /\ response' = ServerError
        ELSE /\ collected' = c.items
             /\ unique' = Dedup(c.items)
             /\ response' = Respond(c.items, limit)
  /\ pc' = "done"
  /\ UNCHANGED <<limit, net, feedResp, feedItems>>

Next == GetLiveNews

Spec == Init /\ [][Next]_vars

(***************************************************************************)
(* One call of fetch_rss_feed on one response.                             *)
(***************************************************************************)
InitFetch ==
  /\ pc = "call"
  /\ IsLimit(limit)
  /\ feedResp \in FetchResponses
  /\ feedItems = <<>>
  /\ net = [u \in 1 .. Len(feeds) |-> TransportError]
  /\ collected = <<>>
  /\ unique = <<>>
  /\ response = NoResponse

FetchRssFeed ==
  /\ pc = "call"
  /\ feedItems' = fetch_rss_feed(feedResp, feeds[1], limit).items
  /\ pc' = "returned"
  /\ UNCHANGED <<limit, net, collected, unique, response, feedResp>>

NextFetch == FetchRssFeed

SpecFetch == InitFetch /\ [][NextFetch]_vars

(***************************************************************************)
(* Properties.                                                             *)
(***************************************************************************)
Done == pc = "done"
Out == response.items
Positions(s) == 1 .. Len(s)

\* Position in collected of the first item with link l.
FirstOcc(l) ==
  CHOOSE k \in Positions(collected) :
    /\ collected[k].link = l
    /\ \A m \in 1 .. (k - 1) : collected[m].link # l

\* C1: among the collected items with one non-empty link only the first in
\* merge order can be in the final output, and no two items of the final
\* output have the same link.
C1_DedupFirstWins ==
  Done =>
    /\ \A i, j \in Positions(Out) : i # j => Out[i].link # Out[j].link
    /\ \A i \in Positions(Out) :
         \E k \in Positions(collected) :
           /\ collected[k] = Out[i]
           /\ \A m \in 1 .. (k - 1) : collected[m].link # Out[i].link

\* A link collected twice, with different items, is in the final output.
C1_Witness ==
  /\ Done
  /\ \E k, m \in Positions(collected) :
       /\ k < m
       /\ collected[k].link = collected[m].link
       /\ collected[k] # collected[m]
       /\ \E i \in Positions(Out) : Out[i] = collected[k]

\* C2: for every integer limit the number of returned items is at most
\* limit, and count is that number.
C2_Truncation ==
  Done => /\ Len(Out) <= limit
          /\ response.count = Len(Out)

HasTs(it) == it.published_ts # None

\* The point in time of an item's date, in hours: the wall-clock time of the
\* date minus its UTC offset.
Instant(it) ==
  LET dt == parsedate_to_datetime(it.published)
  IN (dt.day * 24 + dt.hour) - dt.off

\* C3: along the final output the points in time never increase, and the
\* items without a timestamp come after those with one, whatever the UTC
\* offsets of the dates.
C3_SortOrder ==
  Done =>
    \A i \in 1 .. (Len(Out) - 1) :
      /\ (HasTs(Out[i]) /\ HasTs(Out[i + 1])) => Instant(Out[i]) >= Instant(Out[i + 1])
      /\ ~HasTs(Out[i]) => ~HasTs(Out[i + 1])

\* The feeds of the mixed scenario: an RSS feed with x, then an Atom feed
\* with x and y, the third feed without items.
ScenarioNet ==
  (1 :> Ok(Doc(TRUE, <<rx>>))) @@ (2 :> Ok(Doc(FALSE, <<ax, ay>>)))
    @@ (3 :> Ok(Doc(TRUE, <<>>)))

\* C4: in the mixed scenario with limit 9 the output is y, then the x of the
\* RSS feed; and every collected item whose date text is an ISO-8601 date
\* has a timestamp.
C4_MixedScenario ==
  Done =>
    /\ (net = ScenarioNet /\ limit = DefaultLimit) =>
         /\ response.count = 2
         /\ Len(Out) = 2
         /\ Out[1].link = <<"y">>
         /\ Out[2].link = <<"x">>
         /\ Out[2].source = feeds[1]
    /\ \A k \in Positions(collected) :
         collected[k].published \in {Iso2, Iso3} => HasTs(collected[k])

\* A feed whose fetch fails or whose body is not XML.
Fails(r) == r.exc \/ r.status \notin 200 .. 299 \/ ~r.body.wellformed

RECURSIVE RemainingItems(_)
RemainingItems(u) ==
  IF u > Len(feeds) THEN <<>>
  ELSE (IF Fails(net[u]) THEN <<>>
        ELSE fetch_rss_feed(net[u], feeds[u], limit).items)
         \o RemainingItems(u + 1)

\* C5: whatever feeds fail, the handler answers 200 with what dedup, sort
\* and truncate give on the items of the remaining feeds alone.
C5_FailureIsolation ==
  Done => response = Respond(RemainingItems(1), limit)

\* A feed fails and the output has items of another feed.
C5_Witness ==
  /\ Done
  /\ \E u \in Positions(feeds) : Fails(net[u])
  /\ \E u \in Positions(feeds) : ~Fails(net[u])
  /\ response.status = 200
  /\ response.count > 0

Returned1 == pc = "returned"
IsXml(r) == ~r.exc /\ r.status = 200 /\ r.body.wellformed
IsAtomFeed(r) == IsXml(r) /\ ~r.body.channel
IsRssFeed(r) == IsXml(r) /\ r.body.channel

\* The text of an element, the empty string when it is missing or empty.
ElementText(el) == IF el \in {Absent, None} THEN <<>> ELSE el

\* C6: an Atom document with N entries and limit >= N gives N items in
\* document order, a missing or empty title, link or updated giving the
\* empty string.
C6_AtomParsing ==
  (Returned1 /\ IsAtomFeed(feedResp) /\ limit >= Len(feedResp.body.entries)) =>
    /\ Len(feedItems) = Len(feedResp.body.entries)
    /\ \A i \in Positions(feedItems) :
         LET e == feedResp.body.entries[i]
         IN /\ feedItems[i].title = Strip(ElementText(e.title))
            /\ feedItems[i].link = ElementText(e.link)
            /\ feedItems[i].published = ElementText(e.date)

ParsesAsDate(d) == parsedate_to_datetime(ElementText(d)).ok

\* C7: an RSS document with N items and limit k >= 0 gives the first
\* min(N, k) items in document order, also when an item lacks title, link
\* or pubDate or its pubDate does not parse (then without timestamp).
C7_RssParsing ==
  (Returned1 /\ IsRssFeed(feedResp) /\ limit >= 0) =>
    /\ Len(feedItems) = Min(Len(feedResp.body.entries), limit)
    /\ \A i \in Positions(feedItems) :
         LET e == feedResp.body.entries[i]
         IN /\ feedItems[i].title = Strip(ElementText(e.title))
            /\ feedItems[i].link = Strip(ElementText(e.link))
            /\ feedItems[i].published = Strip(ElementText(e.date))
            /\ HasTs(feedItems[i]) <=> ParsesAsDate(e.date)
            /\ feedItems[i].source = feeds[1]

\* The limit cuts an RSS document, and the kept item has no title and a
\* pubDate that does not parse.
C7_Witness ==
  /\ Returned1
  /\ IsRssFeed(feedResp)
  /\ limit = 1
  /\ Len(feedResp.body.entries) = 2
  /\ Len(feedItems) = 1
  /\ feedResp.body.entries[1].title = Absent
  /\ feedResp.body.entries[1].date = Iso2
  /\ feedItems[1].published = Iso2
  /\ ~HasTs(feedItems[1])

\* C8: in every response title, link, published and source of every item
\* are strings and published_ts is a timestamp string or null.
C8_ResponseShape ==
  Done =>
    \A i \in Positions(Out) :
      /\ Out[i].title # None
      /\ Out[i].link # None
      /\ Out[i].published # None
      /\ Out[i].source \in {feeds[u] : u \in Positions(feeds)}
      /\ (HasTs(Out[i]) => Len(Out[i].published_ts) = 25)

\* C9: no item of the final output has an empty or absent link, and an
\* item with an empty link does not keep a link collected after it out of
\* the deduplicated list.
C9_NonEmptyLinks ==
  Done =>
    /\ \A i \in Positions(Out) : Truthy(Out[i].link)
    /\ \A j \in Positions(unique) : Truthy(unique[j].link)
    /\ \A k \in Positions(collected) :
         Truthy(collected[k].link) =>
           \E j \in Positions(unique) : unique[j].link = collected[k].link

\* An item with an empty link is collected before an item with a real link
\* that is in the final output.
C9_Witness ==
  /\ Done
  /\ \E k, m \in Positions(collected) :
       /\ k < m
       /\ ~Truthy(collected[k].link)
       /\ Truthy(collected[m].link)
       /\ \E i \in Positions(Out) : Out[i] = collected[m]

\* C10: two items of the final output with equal timestamps, or both
\* without one, are in the order of their first occurrence in the merge.
C10_StableTies ==
  Done =>
    \A i, j \in Positions(Out) :
      (i < j /\ Out[i].published_ts = Out[j].published_ts) =>
        FirstOcc(Out[i].link) < FirstOcc(Out[j].link)

\* The final output has two items with one timestamp and two items without.
C10_Witness ==
  /\ Done
  /\ \E i, j \in Positions(Out) :
       i < j /\ HasTs(Out[i]) /\ Out[i].published_ts = Out[j].published_ts
  /\ \E i, j \in Positions(Out) : i < j /\ ~HasTs(Out[i]) /\ ~HasTs(Out[j])

====
